---- MODULE Spec2Model ----
(***************************************************************************)
(* confann: an IRC bot that announces Asterisk conference joins.           *)
(*                                                                         *)
(* The model covers src/main.go: the startup of main (lines 206-245), the   *)
(* select loop of main (from line 247), the goirc callbacks registered by  *)
(* defineHandlers, the HTTP listener goroutine and the request handler     *)
(* built by wrapAPIHandler.                                                *)
(***************************************************************************)
EXTENDS Integers, Sequences, FiniteSets, TLC

(* ---- bounds of the environment ---------------------------------------- *)
MaxReq          == 1   \* webhook requests sent while the loop is observed
MaxPairs        == 1   \* key=value pairs in one request body
MaxConnected    == 1   \* "connected" events the chat library dispatches
MaxDisconnected == 1   \* "disconnected" events the chat library dispatches
MaxInterrupts   == 2   \* SIGINTs the operating system raises
MaxFileLen      == 3   \* bytes in a file of the configuration directory

(* ---- program constants ------------------------------------------------ *)
QuitCap  == 1   \* quit := make(chan struct{}, 1)
SigsCap  == 1   \* sigs := make(chan os.Signal, 1)
ErrChCap == 1   \* errCh := make(chan error, 1)

StatusOK                 == 200
StatusBadRequest         == 400
StatusUnauthorized       == 401
StatusNotFound           == 404
StatusServiceUnavailable == 503

BotsChannel == "#bots"
Anonymous   == "<< anonymous caller >>"
JoinedText  == " joined the conference."

(* ---- configuration and request inputs --------------------------------- *)
Channels  == {"#alrs", "#conf"}          \* values of the -channel flag
Users     == {"asterisk", "mallory"}
Passwords == {"s3cret", "guess"}
Methods   == {"POST", "GET"}

\* bcrypt hash of a password: equal hashes iff equal passwords
BcryptHash(p) == <<"$2y$", p>>

\* the record loadPasswd returned at startup (parsePasswd: User, Hash)
pw == [User |-> "asterisk", Hash |-> BcryptHash("s3cret")]

\* bcrypt.CompareHashAndPassword(hash, p): nil exactly for the hashed password
CompareHashAndPassword(hash, p) == IF hash = BcryptHash(p) THEN "nil" ELSE "mismatch"

\* one "&"-separated piece of a form body; bad = it does not unescape
Pairs == {[k |-> "CLID",  v |-> "",             bad |-> FALSE],
          [k |-> "CLID",  v |-> "+15551234567", bad |-> FALSE],
          [k |-> "other", v |-> "x",            bad |-> FALSE],
          [k |-> "%zz",   v |-> "",             bad |-> TRUE]}

Bodies == UNION {[1..n -> Pairs] : n \in 0..MaxPairs}

NoAuth == [present |-> FALSE, u |-> "", p |-> ""]
Auths  == {NoAuth} \cup {[present |-> TRUE, u |-> u, p |-> p] : u \in Users, p \in Passwords}

Requests == [auth : Auths, method : Methods, body : Bodies]

\* the requests sent while the coordination loop is observed: one the handler
\* relays, and one it rejects for its secret, its method and its body each
SampleRequests ==
    LET good == [auth   |-> [present |-> TRUE, u |-> "asterisk", p |-> "s3cret"],
                 method |-> "POST",
                 body   |-> <<[k |-> "CLID", v |-> "+15551234567", bad |-> FALSE]>>]
    IN  {good,
         [good EXCEPT !.auth.p = "guess"],
         [good EXCEPT !.method = "GET"],
         [good EXCEPT !.body = <<>>]}

(* ---- net/http pieces used by the handler ------------------------------ *)
\* http.Error(w, msg, code): status code, body msg followed by a newline
HttpError(msg, code) == [status |-> code, body |-> msg \o "\n"]

\* a handler that returns without writing: 200 with an empty body
ImplicitOK == [status |-> StatusOK, body |-> ""]

\* r.BasicAuth(): username, password, ok
BasicAuth(r) == r.auth

\* url.ParseQuery over the body: every piece that unescapes is appended to
\* the values of its key; a piece that does not is skipped and sets err
GoodPairs(body) == SelectSeq(body, LAMBDA t : ~t.bad)

PostFormKeys(body) == {GoodPairs(body)[i].k : i \in 1..Len(GoodPairs(body))}

PostFormValues(body, key) ==
    LET S == SelectSeq(GoodPairs(body), LAMBDA t : t.k = key)
    IN  [i \in 1..Len(S) |-> S[i].v]

\* r.ParseForm(): err and r.PostForm
ParseForm(r) ==
    [err      |-> \E i \in 1..Len(r.body) : r.body[i].bad,
     PostForm |-> [key \in PostFormKeys(r.body) |-> PostFormValues(r.body, key)]]

NoticeText_NoSuffix(clid) == clid

\* fmt.Sprintf("%s joined the conference.", clid)
NoticeText(clid) == clid \o JoinedText

(* ---- wrapAPIHandler, lines 155-194: the checks before ircReady is read - *)
\* the caller identifier taken from the CLID values of the form
Clid(post) == IF Len(post) > 0 THEN post[1] ELSE Anonymous

SecretFailResp_Detailed == HttpError("401: bad password", StatusUnauthorized)

\* the rejections, in the order of the checks
AuthFailResp   == HttpError("401", StatusUnauthorized)   \* line 158
SecretFailResp == HttpError("401", StatusUnauthorized)   \* line 164
MethodResp     == HttpError("404", StatusNotFound)       \* line 170
ParseErrResp   == HttpError("400", StatusBadRequest)     \* line 176
NoClidResp     == HttpError("400", StatusBadRequest)     \* line 191

\* Result: either a final response (done) or the notice text to relay

HandlerChecks_MethodFirst(r) ==
    LET a    == BasicAuth(r)
        form == ParseForm(r)
    IN  IF r.method # "POST"
          THEN [done |-> TRUE, resp |-> MethodResp, notice |-> ""]
        ELSE IF ~a.present \/ a.u # pw.User
          THEN [done |-> TRUE, resp |-> AuthFailResp, notice |-> ""]
        ELSE IF CompareHashAndPassword(pw.Hash, a.p) # "nil"
          THEN [done |-> TRUE, resp |-> SecretFailResp, notice |-> ""]
        ELSE IF form.err
          THEN [done |-> TRUE, resp |-> ParseErrResp, notice |-> ""]
        ELSE IF "CLID" \in DOMAIN form.PostForm
          THEN [done |-> FALSE, resp |-> ImplicitOK,
                notice |-> NoticeText(Clid(form.PostForm["CLID"]))]
        ELSE [done |-> TRUE, resp |-> NoClidResp, notice |-> ""]

HandlerChecks(r) ==
    LET a    == BasicAuth(r)
        form == ParseForm(r)
    IN  IF ~a.present \/ a.u # pw.User
          THEN [done |-> TRUE, resp |-> AuthFailResp, notice |-> ""]
        ELSE IF CompareHashAndPassword(pw.Hash, a.p) # "nil"
          THEN [done |-> TRUE, resp |-> SecretFailResp, notice |-> ""]
        ELSE IF r.method # "POST"
          THEN [done |-> TRUE, resp |-> MethodResp, notice |-> ""]
        ELSE IF form.err
          THEN [done |-> TRUE, resp |-> ParseErrResp, notice |-> ""]
        ELSE IF "CLID" \in DOMAIN form.PostForm
          THEN [done |-> FALSE, resp |-> ImplicitOK,
                notice |-> NoticeText(Clid(form.PostForm["CLID"]))]
        ELSE [done |-> TRUE, resp |-> NoClidResp, notice |-> ""]

\* lines 196-200: the answer when ircReady is read as false
NotReady == HttpError("503: irc disconnected", StatusServiceUnavailable)

(* ---- defineHandlers: the channels handed to the coordination loop ----- *)
\* handlerChans as built at lines 118-120: the keys that were made
handlerChans == [key \in {"connected", "disconnect"} |-> key]

NilChan == "nil"

\* handlerChans[key]: a missing key yields the zero value, a nil channel
HandlerChan(key) == IF key \in DOMAIN handlerChans THEN handlerChans[key] ELSE NilChan

(* ---- state ------------------------------------------------------------ *)
VARIABLES
    channel,      \* the -channel flag
    ircReady,     \* var ircReady bool
    pc,           \* where the coordination loop of main stands
    quit,         \* items buffered in quit
    sigs,         \* items buffered in sigs
    errCh,        \* items buffered in errCh
    hchan,        \* per handler channel: blocked senders, closed
    listener,     \* the goroutine running srv.ListenAndServe
    srvShutdown,  \* srv.Shutdown has been called
    reqs,         \* the webhook requests and their handler goroutines
    nReq,         \* requests accepted so far
    ircCalls,     \* calls made on conn, in order
    procState,    \* "running", "exited" (os.Exit) or "crashed" (panic)
    exitCode,
    panics,       \* handler panics recovered by the chat library
    nConnected,   \* "connected" events dispatched
    nDisconnected,\* "disconnected" events dispatched
    nInterrupts,  \* SIGINTs raised
    startup,      \* the files read, the dial outcome and what main made of them
    ctxExpired    \* the deadline of ctx (line 244) has passed

vars == <<startup, ctxExpired, channel, ircReady, pc, quit, sigs, errCh, hchan, listener, srvShutdown,
          reqs, nReq, ircCalls, procState, exitCode, panics,
          nConnected, nDisconnected, nInterrupts>>

coordVars == <<pc, quit, sigs, errCh, hchan, srvShutdown>>
envVars   == <<nConnected, nDisconnected, nInterrupts>>
procVars  == <<procState, exitCode, panics>>

\* a pair of requests, so that the answers to two requests can be compared
HandlerSlots == {1, 2}

\* the handler goroutines of a run
ReqIds == (1..MaxReq) \cup HandlerSlots

NoRequest  == [auth |-> NoAuth, method |-> "GET", body |-> <<>>]
NoResponse == [status |-> 0, body |-> ""]
IdleReq    == [st |-> "none", r |-> NoRequest, resp |-> NoResponse, notice |-> ""]

\* a file of the configuration directory: whether it can be read, and its bytes
File(data) == [exists |-> TRUE, data |-> data]

\* a file that is absent or unreadable: ioutil.ReadFile returns an error
Missing == [exists |-> FALSE, data |-> <<>>]

\* the bytes that matter to the parsers: a separator, a newline, anything else
Bytes == {"a", ":", "\n"}

FileContents == UNION {[1..n -> Bytes] : n \in 0..MaxFileLen}

Files == {Missing} \cup {File(d) : d \in FileContents}

\* strings.TrimSuffix(s, suffix) for a one-byte suffix: at most one is removed
TrimSuffix(s, suffix) ==
    IF Len(s) > 0 /\ s[Len(s)] = suffix THEN SubSeq(s, 1, Len(s) - 1) ELSE s

\* strings.Split(s, sep) for a one-byte separator: the pieces between the
\* separators, empty pieces kept; a string without separator is one piece
RECURSIVE Split(_, _)
Split(s, sep) ==
    LET at == {i \in 1..Len(s) : s[i] = sep}
    IN  IF at = {}
          THEN <<s>>
          ELSE LET i == CHOOSE j \in at : \A k \in at : j <= k
               IN  <<SubSeq(s, 1, i - 1)>> \o Split(SubSeq(s, i + 1, Len(s)), sep)

\* var p passwd: the zero value
NoPasswd == [User |-> <<>>, Hash |-> <<>>]

parsePasswd_AtLeastTwo(data) ==
    LET pair == Split(TrimSuffix(data, "\n"), ":")
    IN  IF Len(pair) < 2
          THEN [err |-> TRUE, p |-> NoPasswd]
          ELSE [err |-> FALSE, p |-> [User |-> pair[1], Hash |-> pair[2]]]

\* lines 57-67
parsePasswd(data) ==
    LET pair == Split(TrimSuffix(data, "\n"), ":")
    IN  IF Len(pair) # 2
          THEN [err |-> TRUE, p |-> NoPasswd]
          ELSE [err |-> FALSE, p |-> [User |-> pair[1], Hash |-> pair[2]]]

\* lines 69-81: a read error is returned, otherwise the parse of the bytes
loadPasswd(file) ==
    IF ~file.exists THEN [err |-> TRUE, p |-> NoPasswd] ELSE parsePasswd(file.data)

\* lines 83-98: a read error or an empty secret is an error
loadNickservPW(file) ==
    IF ~file.exists
      THEN [err |-> TRUE, pass |-> <<>>]
      ELSE LET pass == TrimSuffix(file.data, "\n")
           IN  IF pass = <<>>
                 THEN [err |-> TRUE, pass |-> <<>>]
                 ELSE [err |-> FALSE, pass |-> pass]

\* main after a startup without failure (lines 210-245): both files read and
\* parsed, the connection created and dialled
Booted ==
    [nickservFile |-> File(<<"a">>),
     passwdFile   |-> File(<<"a", ":", "a">>),
     dialOK       |-> TRUE,
     nickservPW   |-> <<"a">>,
     pw           |-> [User |-> <<"a">>, Hash |-> <<"a">>],
     conn         |-> "connected",
     err          |-> ""]

Call(op, target, text, req) == [op |-> op, target |-> target, text |-> text, req |-> req]

Running == procState = "running"

Init ==
    /\ channel \in Channels
    /\ ircReady = FALSE
    /\ pc = "select"
    /\ quit = 0
    /\ sigs = 0
    /\ errCh = 0
    /\ hchan = [c \in DOMAIN handlerChans |-> [senders |-> 0, closed |-> FALSE]]
    /\ listener = "serving"
    /\ srvShutdown = FALSE
    /\ reqs = [i \in ReqIds |-> IdleReq]
    /\ nReq = 0
    /\ ircCalls = <<>>
    /\ procState = "running"
    /\ exitCode = 0
    /\ panics = 0
    /\ nConnected = 0
    /\ nDisconnected = 0
    /\ nInterrupts = 0
    /\ startup = Booted
    /\ ctxExpired = FALSE

(* ---- main: startup, lines 206-245 ------------------------------------- *)
\* what the startup steps leave alone
loopVars == <<ctxExpired, channel, ircReady, quit, sigs, errCh, hchan, srvShutdown,
              reqs, nReq, ircCalls, panics, envVars>>

\* main at line 210: the channels made, nothing loaded, no connection, no
\* listener; the files and the dial outcome are what the environment holds
InitStartup ==
    /\ channel \in Channels
    /\ ircReady = FALSE
    /\ pc = "loadNickservPW"
    /\ quit = 0
    /\ sigs = 0
    /\ errCh = 0
    /\ hchan = [c \in DOMAIN handlerChans |-> [senders |-> 0, closed |-> FALSE]]
    /\ listener = "notStarted"
    /\ srvShutdown = FALSE
    /\ reqs = [i \in ReqIds |-> IdleReq]
    /\ nReq = 0
    /\ ircCalls = <<>>
    /\ procState = "running"
    /\ exitCode = 0
    /\ panics = 0
    /\ nConnected = 0
    /\ nDisconnected = 0
    /\ nInterrupts = 0
    /\ startup \in [nickservFile : Files, passwdFile : Files, dialOK : BOOLEAN,
                    nickservPW : {<<>>}, pw : {NoPasswd}, conn : {"none"}, err : {""}]
    /\ ctxExpired = FALSE

\* log.Fatalf: the message is logged and the process exits with status 1
Fatal(step) ==
    /\ procState' = "exited"
    /\ exitCode' = 1
    /\ pc' = "fatal"
    /\ startup' = [startup EXCEPT !.err = step]

\* lines 210-213
StartLoadNickservPW ==
    /\ Running
    /\ pc = "loadNickservPW"
    /\ LET r == loadNickservPW(startup.nickservFile)
       IN  IF r.err
             THEN Fatal("loadNickservPW")
             ELSE /\ startup' = [startup EXCEPT !.nickservPW = r.pass]
                  /\ pc' = "buildIRCConfig"
                  /\ UNCHANGED <<procState, exitCode>>
    /\ UNCHANGED <<listener, loopVars>>

\* lines 215-218: buildIRCConfig (lines 107-115) always returns a nil error
StartBuildIRCConfig ==
    /\ Running
    /\ pc = "buildIRCConfig"
    /\ pc' = "loadPasswd"
    /\ UNCHANGED <<startup, listener, procState, exitCode, loopVars>>

\* lines 220-223
StartLoadPasswd ==
    /\ Running
    /\ pc = "loadPasswd"
    /\ LET r == loadPasswd(startup.passwdFile)
       IN  IF r.err
             THEN Fatal("loadPasswd")
             ELSE /\ startup' = [startup EXCEPT !.pw = r.p]
                  /\ pc' = "client"
                  /\ UNCHANGED <<procState, exitCode>>
    /\ UNCHANGED <<listener, loopVars>>

\* lines 225-227: conn := irc.Client(cfg), then defineHandlers
StartClient ==
    /\ Running
    /\ pc = "client"
    /\ startup' = [startup EXCEPT !.conn = "created"]
    /\ pc' = "connect"
    /\ UNCHANGED <<listener, procState, exitCode, loopVars>>

StartConnect_IgnoreError ==
    /\ Running
    /\ pc = "connect"
    /\ startup' = [startup EXCEPT !.conn = IF startup.dialOK THEN "connected" ELSE @]
    /\ pc' = "listen"
    /\ UNCHANGED <<procState, exitCode>>
    /\ UNCHANGED <<listener, loopVars>>

\* lines 229-232: conn.ConnectTo(cfg.Server), one attempt
StartConnect ==
    /\ Running
    /\ pc = "connect"
    /\ IF startup.dialOK
         THEN /\ startup' = [startup EXCEPT !.conn = "connected"]
              /\ pc' = "listen"
              /\ UNCHANGED <<procState, exitCode>>
         ELSE Fatal("ConnectTo")
    /\ UNCHANGED <<listener, loopVars>>

\* lines 234-242: the handler is built and the listener goroutine started
StartListener ==
    /\ Running
    /\ pc = "listen"
    /\ listener' = "serving"
    /\ pc' = "context"
    /\ UNCHANGED <<startup, procState, exitCode, loopVars>>

\* lines 244-247: ctx is made with its one-second deadline and the loop entered
StartContext ==
    /\ Running
    /\ pc = "context"
    /\ pc' = "select"
    /\ UNCHANGED <<startup, listener, procState, exitCode, loopVars>>

StartupStep ==
    \/ StartLoadNickservPW
    \/ StartBuildIRCConfig
    \/ StartLoadPasswd
    \/ StartClient
    \/ StartConnect
    \/ StartListener
    \/ StartContext

\* the startup of main alone; main is the only goroutine until line 239 and
\* is always scheduled
SpecStartup == InitStartup /\ [][StartupStep]_vars /\ WF_vars(StartupStep)

(* ---- the environment -------------------------------------------------- *)
\* signal.Notify(sigs, os.Interrupt): the runtime sends without blocking and
\* drops the signal when the buffer is full
Interrupt ==
    /\ Running
    /\ nInterrupts < MaxInterrupts
    /\ nInterrupts' = nInterrupts + 1
    /\ sigs' = IF sigs < SigsCap THEN sigs + 1 ELSE sigs
    /\ UNCHANGED <<startup, ctxExpired, channel, ircReady, pc, quit, errCh, hchan, listener, srvShutdown,
                   reqs, nReq, ircCalls, procVars, nConnected, nDisconnected>>

\* lines 239-242: srv.ListenAndServe returns (bind failure, or ErrServerClosed
\* after Shutdown) and its error is sent on errCh, once
ListenerReturn ==
    /\ Running
    /\ listener = "serving"
    /\ errCh < ErrChCap
    /\ errCh' = errCh + 1
    /\ listener' = "returned"
    /\ UNCHANGED <<startup, ctxExpired, channel, ircReady, pc, quit, sigs, hchan, srvShutdown,
                   reqs, nReq, ircCalls, procVars, envVars>>

ConnectedCallback_SetsReady ==
    /\ Running
    /\ nConnected < MaxConnected
    /\ nConnected' = nConnected + 1
    /\ ircReady' = TRUE
    /\ LET c == HandlerChan("connected")
       IN  hchan' = [hchan EXCEPT ![c].senders = @ + 1]
    /\ UNCHANGED <<startup, ctxExpired, channel, pc, quit, sigs, errCh, listener, srvShutdown,
                   reqs, nReq, ircCalls, procVars, nDisconnected, nInterrupts>>

\* lines 122-125: the "connected" callback starts its send on the unbuffered
\* channel and stays blocked until the loop receives
ConnectedCallback ==
    /\ Running
    /\ nConnected < MaxConnected
    /\ nConnected' = nConnected + 1
    /\ LET c == HandlerChan("connected")
       IN  hchan' = [hchan EXCEPT ![c].senders = @ + 1]
    /\ UNCHANGED <<startup, ctxExpired, channel, ircReady, pc, quit, sigs, errCh, listener, srvShutdown,
                   reqs, nReq, ircCalls, procVars, nDisconnected, nInterrupts>>

\* close(c): panics on a nil channel and on a closed channel
ClosePanics(c) == c = NilChan \/ hchan[c].closed

\* lines 127-130: the "disconnected" callback closes handlerChans["disconnected"].
\* A panic in the callback is either recovered by the chat library (logged) or
\* ends the process, depending on the library's handler recovery.
DisconnectedCallback(recovered) ==
    /\ Running
    /\ nDisconnected < MaxDisconnected
    /\ nDisconnected' = nDisconnected + 1
    /\ LET c == HandlerChan("disconnected")
       IN  IF ClosePanics(c)
             THEN /\ IF recovered
                        THEN /\ panics' = panics + 1
                             /\ UNCHANGED <<procState, exitCode>>
                        ELSE /\ procState' = "crashed"
                             /\ exitCode' = 2
                             /\ UNCHANGED panics
                  /\ UNCHANGED hchan
             ELSE /\ hchan' = [hchan EXCEPT ![c].closed = TRUE]
                  /\ UNCHANGED procVars
    /\ UNCHANGED <<startup, ctxExpired, channel, ircReady, pc, quit, sigs, errCh, listener, srvShutdown,
                   reqs, nReq, ircCalls, nConnected, nInterrupts>>

\* line 244: ctx, cancel := context.WithTimeout(context.Background(),
\* time.Second) is made before the loop starts; one second later its
\* deadline passes, whatever the loop is doing
CtxExpire ==
    /\ Running
    /\ ~ctxExpired
    /\ ctxExpired' = TRUE
    /\ UNCHANGED <<startup, channel, ircReady, coordVars, listener, reqs, nReq,
                   ircCalls, procVars, envVars>>

(* ---- main: the coordination loop, lines 247-273 ----------------------- *)
SelectCases == {"quit", "sigs", "connected", "disconnected", "errCh"}

\* a receive on a handler channel can proceed: never on a nil channel
RecvReady(c) == c # NilChan /\ (hchan[c].senders > 0 \/ hchan[c].closed)

\* which case of the select can be chosen; the runtime picks among the ready
\* cases at random
CaseReady(case) ==
    CASE case = "quit"         -> quit > 0
      [] case = "sigs"         -> sigs > 0
      [] case = "connected"    -> RecvReady(HandlerChan("connected"))
      [] case = "disconnected" -> RecvReady(HandlerChan("disconnected"))
      [] case = "errCh"        -> errCh > 0

\* the receive that selects the case
Receive(case) ==
    /\ quit'  = IF case = "quit"  THEN quit - 1  ELSE quit
    /\ sigs'  = IF case = "sigs"  THEN sigs - 1  ELSE sigs
    /\ errCh' = IF case = "errCh" THEN errCh - 1 ELSE errCh
    /\ hchan' = IF case \in {"connected", "disconnected"}
                   /\ hchan[HandlerChan(case)].senders > 0
                  THEN [hchan EXCEPT ![HandlerChan(case)].senders = @ - 1]
                  ELSE hchan

\* where the loop goes after the receive: to the write of ircReady (lines
\* 259, 266), to conn.Close, or to quit <- struct{}{} (lines 257, 271)
PcAfter(case) ==
    CASE case = "quit"         -> "close"
      [] case = "connected"    -> "setReady"
      [] case = "disconnected" -> "clearReady"
      [] OTHER                 -> "sendQuit"

CoordSelect(case) ==
    /\ Running
    /\ pc = "select"
    /\ CaseReady(case)
    /\ Receive(case)
    /\ pc' = PcAfter(case)
    /\ UNCHANGED ircReady
    /\ UNCHANGED <<startup, ctxExpired, channel, listener, srvShutdown, reqs, nReq, ircCalls,
                   procVars, envVars>>

\* the loop stands at a store to ircReady
AtWrite == pc \in {"setReady", "clearReady"}

\* lines 259 and 266: the value stored
ReadyAfter == pc = "setReady"

\* lines 259 and 266: ircReady = true / ircReady = false, a plain store to
\* the package variable; line 268 follows the store of false
CoordWriteReady ==
    /\ Running
    /\ AtWrite
    /\ ircReady' = ReadyAfter
    /\ pc' = IF pc = "setReady" THEN "join1" ELSE "sendQuit"
    /\ UNCHANGED <<startup, ctxExpired, channel, quit, sigs, errCh, hchan, listener,
                   srvShutdown, reqs, nReq, ircCalls, procVars, envVars>>

\* quit <- struct{}{}: a blocking send; it proceeds only while the buffer has
\* room, and the loop itself is the only receiver of quit
CoordSendQuit ==
    /\ Running
    /\ pc = "sendQuit"
    /\ quit < QuitCap
    /\ quit' = quit + 1
    /\ pc' = "select"
    /\ UNCHANGED <<startup, ctxExpired, channel, ircReady, sigs, errCh, hchan, listener, srvShutdown,
                   reqs, nReq, ircCalls, procVars, envVars>>

JoinOrder_Swapped == <<channel, BotsChannel>>

\* lines 262-264: the channels joined after "connected", in order
JoinOrder == <<BotsChannel, channel>>

\* line 262: conn.Join("#bots")
CoordJoinBots ==
    /\ Running
    /\ pc = "join1"
    /\ ircCalls' = Append(ircCalls, Call("Join", JoinOrder[1], "", 0))
    /\ pc' = "join2"
    /\ UNCHANGED <<startup, ctxExpired, channel, ircReady, quit, sigs, errCh, hchan, listener, srvShutdown,
                   reqs, nReq, procVars, envVars>>

\* line 264: conn.Join(channel)
CoordJoinChannel ==
    /\ Running
    /\ pc = "join2"
    /\ ircCalls' = Append(ircCalls, Call("Join", JoinOrder[2], "", 0))
    /\ pc' = "select"
    /\ UNCHANGED <<startup, ctxExpired, channel, ircReady, quit, sigs, errCh, hchan, listener, srvShutdown,
                   reqs, nReq, procVars, envVars>>

\* line 251: conn.Close()
CoordClose ==
    /\ Running
    /\ pc = "close"
    /\ ircCalls' = Append(ircCalls, Call("Close", "", "", 0))
    /\ pc' = "shutdown"
    /\ UNCHANGED <<startup, ctxExpired, channel, ircReady, quit, sigs, errCh, hchan, listener, srvShutdown,
                   reqs, nReq, procVars, envVars>>

\* a handler goroutine that has not returned yet
InFlight(i) == reqs[i].st \in {"checkReady", "notice"}

\* srv.Shutdown(ctx) returns once no handler is in flight or ctx is done
ShutdownReturns == ctxExpired \/ \A i \in ReqIds : ~InFlight(i)

\* line 253: srv.Shutdown(ctx) is called: the listener stops accepting
CoordShutdown ==
    /\ Running
    /\ pc = "shutdown"
    /\ srvShutdown' = TRUE
    /\ pc' = "exit"
    /\ UNCHANGED <<startup, ctxExpired, channel, ircReady, quit, sigs, errCh, hchan, listener,
                   reqs, nReq, ircCalls, procVars, envVars>>

\* lines 253-254: srv.Shutdown(ctx) returns, then os.Exit(0)
CoordExit ==
    /\ Running
    /\ pc = "exit"
    /\ ShutdownReturns
    /\ procState' = "exited"
    /\ exitCode' = 0
    /\ pc' = "done"
    /\ UNCHANGED <<startup, ctxExpired, channel, ircReady, quit, sigs, errCh, hchan, listener, srvShutdown,
                   reqs, nReq, ircCalls, panics, envVars>>

(* ---- wrapAPIHandler: one goroutine per request ------------------------ *)
\* lines 155-194: request r is accepted and checked up to the notice text
ServeRequest(i, r) ==
    /\ Running
    /\ listener = "serving"
    /\ ~srvShutdown
    /\ i = nReq + 1
    /\ i \in ReqIds
    /\ nReq' = i
    /\ LET c == HandlerChecks(r)
       IN  reqs' = [reqs EXCEPT ![i] =
                       [st     |-> IF c.done THEN "done" ELSE "checkReady",
                        r      |-> r,
                        resp   |-> IF c.done THEN c.resp ELSE NoResponse,
                        notice |-> c.notice]]
    /\ UNCHANGED <<startup, ctxExpired, channel, ircReady, coordVars, listener, ircCalls, procVars, envVars>>

\* the values a plain load of ircReady can yield: the stored value, or, when
\* the load races with the loop's store, the value being stored
ReadyReads == IF AtWrite THEN {ircReady, ReadyAfter} ELSE {ircReady}

CheckReady_Queued(i) ==
    /\ Running
    /\ reqs[i].st = "checkReady"
    /\ \E ready \in ReadyReads :
          /\ reqs' = [reqs EXCEPT ![i] =
                         IF ~ready
                           THEN [@ EXCEPT !.st = "done", !.resp = NotReady]
                           ELSE [@ EXCEPT !.st = "notice"]]
          /\ ircCalls' = IF ~ready
                           THEN Append(ircCalls, Call("Notice", channel, reqs[i].notice, i))
                           ELSE ircCalls
    /\ UNCHANGED <<startup, ctxExpired, channel, ircReady, coordVars, listener, nReq, procVars, envVars>>

\* lines 196-200: the read of ircReady
CheckReady(i) ==
    /\ Running
    /\ reqs[i].st = "checkReady"
    /\ \E ready \in ReadyReads :
          reqs' = [reqs EXCEPT ![i] =
                      IF ~ready
                        THEN [@ EXCEPT !.st = "done", !.resp = NotReady]
                        ELSE [@ EXCEPT !.st = "notice"]]
    /\ UNCHANGED <<startup, ctxExpired, channel, ircReady, coordVars, listener, nReq, ircCalls,
                   procVars, envVars>>

\* lines 201-202: conn.Notice(channel, notice), then the handler returns
SendNotice(i) ==
    /\ Running
    /\ reqs[i].st = "notice"
    /\ ircCalls' = Append(ircCalls, Call("Notice", channel, reqs[i].notice, i))
    /\ reqs' = [reqs EXCEPT ![i] = [@ EXCEPT !.st = "done", !.resp = ImplicitOK]]
    /\ UNCHANGED <<startup, ctxExpired, channel, ircReady, coordVars, listener, nReq, procVars, envVars>>

Next ==
    \/ Interrupt
    \/ ListenerReturn
    \/ ConnectedCallback
    \/ CtxExpire
    \/ \E recovered \in BOOLEAN : DisconnectedCallback(recovered)
    \/ \E case \in SelectCases : CoordSelect(case)
    \/ CoordWriteReady
    \/ CoordSendQuit
    \/ CoordJoinBots
    \/ CoordJoinChannel
    \/ CoordClose
    \/ CoordShutdown
    \/ CoordExit
    \/ \E i \in 1..MaxReq, r \in SampleRequests : ServeRequest(i, r)
    \/ \E i \in 1..MaxReq : CheckReady(i)
    \/ \E i \in 1..MaxReq : SendNotice(i)

Spec == Init /\ [][Next]_vars

(* ---- the request handler over every request --------------------------- *)
\* The loop stands at its select, either before any "connected" event or
\* after one was handled; only the listener's request paths run.
InitHandler ==
    /\ channel \in Channels
    /\ ircReady \in BOOLEAN
    /\ pc = "select"
    /\ quit = 0
    /\ sigs = 0
    /\ errCh = 0
    /\ hchan = [c \in DOMAIN handlerChans |-> [senders |-> 0, closed |-> FALSE]]
    /\ listener = "serving"
    /\ srvShutdown = FALSE
    /\ reqs = [i \in ReqIds |-> IdleReq]
    /\ nReq = 0
    /\ ircCalls = IF ircReady
                    THEN <<Call("Join", JoinOrder[1], "", 0), Call("Join", JoinOrder[2], "", 0)>>
                    ELSE <<>>
    /\ procState = "running"
    /\ exitCode = 0
    /\ panics = 0
    /\ nConnected = IF ircReady THEN 1 ELSE 0
    /\ nDisconnected = 0
    /\ nInterrupts = 0
    /\ startup = Booted
    /\ ctxExpired = FALSE

NextHandler ==
    \/ \E i \in HandlerSlots, r \in Requests : ServeRequest(i, r)
    \/ \E i \in HandlerSlots : CheckReady(i)
    \/ \E i \in HandlerSlots : SendNotice(i)

SpecHandler == InitHandler /\ [][NextHandler]_vars

(* ---- scheduling ------------------------------------------------------- *)
\* The main goroutine runs whenever it can take a step; nothing is assumed
\* of signals, chat events or requests.
CoordStep ==
    \/ \E case \in SelectCases : CoordSelect(case)
    \/ CoordWriteReady
    \/ CoordSendQuit
    \/ CoordJoinBots
    \/ CoordJoinChannel
    \/ CoordClose
    \/ CoordShutdown
    \/ CoordExit

FairSpec == Init /\ [][Next]_vars /\ WF_vars(CoordStep)

\* the same program linked with a chat library that recovers every panic of
\* a handler, so that no callback can end the process
NextRecovering ==
    \/ Interrupt
    \/ ListenerReturn
    \/ ConnectedCallback
    \/ CtxExpire
    \/ DisconnectedCallback(TRUE)
    \/ CoordStep
    \/ \E i \in 1..MaxReq, r \in SampleRequests : ServeRequest(i, r)
    \/ \E i \in 1..MaxReq : CheckReady(i)
    \/ \E i \in 1..MaxReq : SendNotice(i)

FairSpecRecovering == Init /\ [][NextRecovering]_vars /\ WF_vars(CoordStep)

(* ---- observations on the state ---------------------------------------- *)
\* the calls of one kind made on conn, in order
CallsOf(op) == SelectSeq(ircCalls, LAMBDA c : c.op = op)

\* the notices request i handed to conn
NoticesOf(i) == SelectSeq(ircCalls, LAMBDA c : c.op = "Notice" /\ c.req = i)

\* "connected" events the loop has received
ConnectedConsumed == nConnected - hchan[HandlerChan("connected")].senders

\* the loop is stuck in quit <- struct{}{} with the buffer full
BlockedOnQuit == pc = "sendQuit" /\ quit >= QuitCap

Done(i) == reqs[i].st = "done"

Rejections == {StatusUnauthorized, StatusNotFound, StatusBadRequest, StatusServiceUnavailable}

(* ======================================================================= *)
(* Properties                                                              *)
(* ======================================================================= *)

\* C1: when several shutdown triggers are delivered, no enqueue of the
\* shutdown request blocks the coordination loop: the loop is never stuck in
\* the send on quit, so it can always come back to the quit case.
C1_EnqueueNeverBlocks == ~BlockedOnQuit

\* C2: once an interrupt or a listener error is pending while the process
\* runs, the coordinator eventually closes the chat session, shuts the HTTP
\* listener down and exits with code 0.
C2_TriggerLeadsToExit ==
    (Running /\ (sigs > 0 \/ errCh > 0))
        ~> (/\ procState = "exited"
            /\ exitCode = 0
            /\ srvShutdown
            /\ Len(CallsOf("Close")) = 1)

\* C3: once the chat session has emitted "disconnected", the coordinator
\* eventually has readiness false and has run the shutdown sequence.
C3_DisconnectDrivesShutdown ==
    (nDisconnected > 0) ~> (~ircReady /\ procState = "exited")

\* C4: no invocation of the "disconnected" callback panics or crashes the
\* process, and the chat session is never closed twice.
C4_DisconnectedNeverPanics ==
    /\ panics = 0
    /\ procState # "crashed"
    /\ Len(CallsOf("Close")) <= 1

\* C5: every "connected" event the coordinator consumes sets readiness and
\* issues exactly two joins, "#bots" first and the announcement channel
\* second; there are no other joins.  While the loop is between the two
\* joins readiness is already true.
JoinsDue ==
    CASE pc = "setReady" -> 2 * ConnectedConsumed - 2
      [] pc = "join1" -> 2 * ConnectedConsumed - 2
      [] pc = "join2" -> 2 * ConnectedConsumed - 1
      [] OTHER        -> 2 * ConnectedConsumed

C5_ConnectedJoinsBotsThenChannel ==
    LET J == CallsOf("Join")
    IN  /\ Len(J) = JoinsDue
        /\ \A n \in 1..Len(J) :
              J[n].target = IF n % 2 = 1 THEN "#bots" ELSE channel
        /\ pc \in {"join1", "join2"} => ircReady

C5_Witness ==
    /\ ConnectedConsumed >= 1
    /\ pc = "select"
    /\ ircReady
    /\ Len(CallsOf("Join")) = 2

(* ---- the webhook contract, as stated for the listener ----------------- *)
Malformed(body) == \E n \in 1..Len(body) : body[n].bad

HasClid(body) == \E n \in 1..Len(body) : ~body[n].bad /\ body[n].k = "CLID"

\* the value of the first CLID field of the body
FirstClid(body) ==
    LET n == CHOOSE m \in 1..Len(body) :
                 /\ ~body[m].bad /\ body[m].k = "CLID"
                 /\ \A l \in 1..(m - 1) : body[l].bad \/ body[l].k # "CLID"
    IN  body[n].v

\* every CLID field of the body has an empty value
ClidEmpty(body) ==
    /\ HasClid(body)
    /\ \A n \in 1..Len(body) : (~body[n].bad /\ body[n].k = "CLID") => body[n].v = ""

GoodId(r)     == r.auth.present /\ r.auth.u = "asterisk"
GoodSecret(r) == r.auth.present /\ r.auth.p = "s3cret"

\* the status of the first failing check, in the order of the contract
ContractStatus(r, ready) ==
    IF ~GoodId(r)                 THEN 401
    ELSE IF ~GoodSecret(r)        THEN 401
    ELSE IF r.method # "POST"     THEN 404
    ELSE IF Malformed(r.body)     THEN 400
    ELSE IF ~HasClid(r.body)      THEN 400
    ELSE IF ~ready                THEN 503
    ELSE 200

\* C6: the status of every answered request is that of the first failing check
\* in the order 401 (identifier), 401 (secret), 404, 400 (form), 400 (CLID),
\* 503, and 200 when no check fails.
C6_StatusOfFirstFailingCheck ==
    \A i \in ReqIds :
        Done(i) => reqs[i].resp.status = ContractStatus(reqs[i].r, ircReady)

\* an unauthenticated GET answered 401 and, while not ready, an authenticated
\* POST without CLID answered 400
C6_Witness ==
    /\ ~ircReady
    /\ \E i \in ReqIds :
          /\ Done(i) /\ ~reqs[i].r.auth.present /\ reqs[i].r.method = "GET"
          /\ reqs[i].resp.status = 401
    /\ \E j \in ReqIds :
          /\ Done(j) /\ GoodId(reqs[j].r) /\ GoodSecret(reqs[j].r)
          /\ reqs[j].r.method = "POST"
          /\ ~Malformed(reqs[j].r.body) /\ ~HasClid(reqs[j].r.body)
          /\ reqs[j].resp.status = 400

\* C7: a notice relayed for a request whose CLID field is present with an
\* empty value has the text "<< anonymous caller >> joined the conference."
C7_EmptyClidRelaysPlaceholder ==
    \A n \in 1..Len(ircCalls) :
        (ircCalls[n].op = "Notice" /\ ClidEmpty(reqs[ircCalls[n].req].r.body))
            => ircCalls[n].text = "<< anonymous caller >> joined the conference."

\* C8: two answered requests that differ only in which credential is wrong get
\* the same response, status 401, and neither hands a notice to the session.
WrongSecretOnly(r) == GoodId(r) /\ ~GoodSecret(r)
WrongIdOnly(r)     == r.auth.present /\ ~GoodId(r) /\ GoodSecret(r)

C8_AuthFailuresIndistinguishable ==
    \A i, j \in ReqIds :
        (/\ Done(i) /\ Done(j)
         /\ WrongSecretOnly(reqs[i].r) /\ WrongIdOnly(reqs[j].r)
         /\ reqs[i].r.method = reqs[j].r.method
         /\ reqs[i].r.body = reqs[j].r.body)
        => /\ reqs[i].resp = reqs[j].resp
           /\ reqs[i].resp.status = 401
           /\ NoticesOf(i) = <<>>
           /\ NoticesOf(j) = <<>>

C8_Witness ==
    \E i, j \in ReqIds :
        /\ Done(i) /\ Done(j)
        /\ WrongSecretOnly(reqs[i].r) /\ WrongIdOnly(reqs[j].r)
        /\ reqs[i].r.method = reqs[j].r.method
        /\ reqs[i].r.body = reqs[j].r.body

\* C9: an answered request that passed every check while readiness was true,
\* with a non-empty CLID value v, handed exactly one notice to the session,
\* addressed to the announcement channel, with text v followed by
\* " joined the conference.", and was answered 200.
PassesAll(r) ==
    /\ GoodId(r) /\ GoodSecret(r)
    /\ r.method = "POST"
    /\ ~Malformed(r.body)
    /\ HasClid(r.body)

C9_ValidRequestRelaysOnce ==
    \A i \in ReqIds :
        (Done(i) /\ ircReady /\ PassesAll(reqs[i].r) /\ FirstClid(reqs[i].r.body) # "")
        => /\ reqs[i].resp.status = 200
           /\ Len(NoticesOf(i)) = 1
           /\ NoticesOf(i)[1].target = channel
           /\ NoticesOf(i)[1].text = FirstClid(reqs[i].r.body) \o " joined the conference."

C9_Witness ==
    \E i \in ReqIds :
        /\ Done(i) /\ ircReady /\ PassesAll(reqs[i].r)
        /\ FirstClid(reqs[i].r.body) = "+15551234567"
        /\ Len(NoticesOf(i)) = 1

\* C10: a request answered 401, 404, 400 or 503 hands no notice to the session,
\* neither when it is answered nor later, and the step that answers it leaves
\* readiness, the coordinator's state and the process unchanged.
RejectedHandsNoNotice ==
    \A i \in ReqIds :
        (Done(i) /\ reqs[i].resp.status \in Rejections) => NoticesOf(i) = <<>>

RejectionChangesNothing ==
    \A i \in ReqIds :
        (reqs[i].st # "done" /\ reqs'[i].st = "done"
           /\ reqs'[i].resp.status \in Rejections)
        => /\ ircCalls' = ircCalls
           /\ ircReady' = ircReady
           /\ UNCHANGED <<coordVars, listener, procVars>>

C10_RejectedRequestHasNoEffect ==
    []RejectedHandsNoNotice /\ [][RejectionChangesNothing]_vars

\* a request was dropped with 503 and the session became ready afterwards
C10_Witness ==
    \E i \in ReqIds :
        /\ Done(i)
        /\ reqs[i].resp.status = 503
        /\ ircReady
        /\ pc = "select"
        /\ Len(CallsOf("Join")) = 2

\* C11: readiness is never accessed in a data race: in no reachable state does
\* a request path stand at its load of ircReady while the coordination loop
\* stands at an unsynchronized store to it.
DataRace ==
    /\ Running
    /\ AtWrite
    /\ \E i \in ReqIds : reqs[i].st = "checkReady"

C11_ReadinessRaceFree == ~DataRace

(* ---- startup ---------------------------------------------------------- *)
Colons(data) == Cardinality({i \in 1..Len(data) : data[i] = ":"})

\* a credential file that can be read and does not hold exactly two
\* colon-separated fields
MalformedCredential(file) == file.exists /\ Colons(file.data) # 1

StartupPcs == {"loadNickservPW", "buildIRCConfig", "loadPasswd", "client",
               "connect", "listen", "context"}

ExitedNonzero == procState = "exited" /\ exitCode # 0

\* C12: a credential file whose content, one trailing newline stripped, is not
\* exactly two colon-separated fields makes the load fail, and the process
\* then never creates the connection, starts the listener or enters the loop:
\* it stands before the load or has aborted.
C12_MalformedCredentialAborts ==
    MalformedCredential(startup.passwdFile) =>
        /\ loadPasswd(startup.passwdFile).err
        /\ startup.conn = "none"
        /\ listener = "notStarted"
        /\ pc \in {"loadNickservPW", "buildIRCConfig", "loadPasswd", "fatal"}
        /\ pc = "fatal" => ExitedNonzero

C12_Witness ==
    /\ Colons(startup.passwdFile.data) >= 2
    /\ startup.passwdFile.exists
    /\ startup.err = "loadPasswd"
    /\ pc = "fatal"

\* the recovery secret is missing or empty, the credential file is missing or
\* malformed, or the dial fails
StartupFails ==
    \/ ~startup.nickservFile.exists
    \/ startup.nickservFile.data \in {<<>>, <<"\n">>}
    \/ ~startup.passwdFile.exists
    \/ MalformedCredential(startup.passwdFile)
    \/ ~startup.dialOK

\* the position of main in its startup sequence
Rank(p) ==
    CASE p = "loadNickservPW" -> 1
      [] p = "buildIRCConfig" -> 2
      [] p = "loadPasswd"     -> 3
      [] p = "client"         -> 4
      [] p = "connect"        -> 5
      [] p = "listen"         -> 6
      [] p = "context"        -> 7
      [] OTHER                -> 8

StartupFailureIsFatal ==
    /\ StartupFails => listener = "notStarted" /\ pc \in StartupPcs \cup {"fatal"}
    /\ pc = "fatal" => ExitedNonzero /\ StartupFails
    /\ listener # "notStarted" => startup.conn = "connected"
    /\ pc = "select" => listener # "notStarted"

\* no step of the startup is run a second time
NoStartupRetry == pc' # pc => Rank(pc') > Rank(pc)

\* C13: a startup failure (recovery secret missing or empty, credential load
\* failure, dial failure) ends the process with a nonzero exit status while the
\* listener is not started and the loop not entered; no startup step is run
\* twice; the listener is started only after a successful connect.
C13_StartupFailureIsFatal ==
    /\ []StartupFailureIsFatal
    /\ [][NoStartupRetry]_vars
    /\ (StartupFails ~> ExitedNonzero)

C13_Witness ==
    /\ ~startup.dialOK
    /\ startup.err = "ConnectTo"
    /\ startup.conn = "created"
    /\ listener = "notStarted"
    /\ ExitedNonzero

(* ---- readiness and shutdown ------------------------------------------- *)
\* a step that changes ircReady is a step of the loop standing at its store:
\* no request, callback or signal moves in it
WrittenByLoopOnly ==
    ircReady' # ircReady =>
        /\ AtWrite
        /\ pc' # pc
        /\ reqs' = reqs
        /\ hchan' = hchan
        /\ envVars' = envVars

\* C14: ircReady is written only by the coordination loop, never by a request
\* handler or a chat-library callback, and it is false as long as the loop has
\* not consumed a connected event.
C14_ReadinessWrittenByLoopOnly ==
    /\ [](ConnectedConsumed = 0 => ~ircReady)
    /\ [][WrittenByLoopOnly]_vars

C14_Witness ==
    /\ ircReady
    /\ ConnectedConsumed = 1
    /\ pc = "join1"
    /\ \E i \in ReqIds : reqs[i].st = "done"

Closes == Len(CallsOf("Close"))

\* a step that calls conn.Close is the first such step and is taken by the
\* loop in its quit branch; a step that ends the process is the os.Exit of
\* that branch
CloseAndExitInQuitBranch ==
    /\ Closes' # Closes => Closes = 0 /\ Closes' = 1 /\ pc = "close"
    /\ procState' # procState =>
           /\ procState = "running"
           /\ procState' = "exited"
           /\ pc = "exit"
           /\ Closes = 1

C16_CallbacksNeverBlock ==
    \A c \in DOMAIN hchan : hchan[c].senders > 0 => pc = "select"

\* a shutdown request is in quit, or the loop has received it
ShutdownRequested == quit > 0 \/ pc \in {"close", "shutdown", "exit", "done"}

Joins == Len(CallsOf("Join"))

NoReconnectAfterRequest ==
    ShutdownRequested => /\ ircReady' => ircReady
                         /\ Joins' = Joins

\* C17: once a shutdown request has been enqueued the loop never again sets
\* ircReady to true and issues no further Join before the process ends.
C17_LifecycleOnlyForward == [][NoReconnectAfterRequest]_vars

JoinedBefore(k, target) ==
    \E j \in 1..(k - 1) : ircCalls[j].op = "Join" /\ ircCalls[j].target = target

\* C18: every Notice handed to the connection comes after the Join of "#bots"
\* and the Join of the announcement channel were issued.
C18_NoticeOnlyAfterJoins ==
    \A k \in 1..Len(ircCalls) :
        ircCalls[k].op = "Notice" =>
            JoinedBefore(k, BotsChannel) /\ JoinedBefore(k, channel)

\* C19: no Notice is handed to the connection after conn.Close was called.
C19_NoNoticeAfterClose ==
    \A k \in 1..Len(ircCalls) :
        ircCalls[k].op = "Notice" =>
            \A j \in 1..(k - 1) : ircCalls[j].op # "Close"

\* C20: when the loop is in its quit branch and about to call
\* srv.Shutdown(ctx), the deadline of ctx has not passed yet.
C20_GraceTimerStartsAtShutdown == pc \in {"close", "shutdown"} => ~ctxExpired

====
